---- MODULE Spec2Model ----
(***************************************************************************)
(* State-machine model of the osm_status application modules:              *)
(*   - app_modules/tasks.py    BackgroundJobManager (job registry, runner  *)
(*                             threads, progress callbacks, pollers)       *)
(*   - app_modules/mbtiles.py  VectorMBTilesBuilder (tile store writer)    *)
(*   - app_modules/py_tileserver.py  PythonTileServer (tile store reader)  *)
(*   - app_modules/tiler.py    TileServerManager                           *)
(*   - app_modules/pipeline.py convert_to_mbtiles, and the callbacks of    *)
(*                             app.py that start it and the tile server    *)
(*                                                                         *)
(* Optional values (Python's Optional[T]) are sequences: <<>> is None and  *)
(* <<v>> is the value v.  Progress fractions are integers in units of      *)
(* 1/Scale, so Scale stands for 1.0.                                       *)
(***************************************************************************)
EXTENDS Integers, Sequences, FiniteSets, TLC

\* ------------------------------------------------------------------ bounds
MaxJobs == 2      \* number of create_job calls explored
Scale == 2        \* progress resolution: the fraction 1.0 is Scale/Scale

MaxZoom == 2      \* deepest zoom level of the tile pyramid explored
MaxBuilds == 2    \* number of build calls on the same builder explored
MaxStarts == 3    \* number of uvicorn.Server objects start() constructs
MaxLayers == 9    \* number of vector layers a store's descriptor advertises
MaxSessions == 2  \* number of browser sessions that have the page open
MaxCallers == 2   \* number of callbacks calling the TileServerManager at the same time

VARIABLES
    jobs,       \* BackgroundJobManager._jobs : job_id -> BackgroundJob object (by slot)
    lock,       \* BackgroundJobManager._lock : 0 when free, else the holding runner's slot
    obj,        \* the BackgroundJob objects on the heap, by the create_job call that made them
    job_id,     \* the job_id local of each create_job call (0 before uuid4 ran)
    pc,         \* position of each create_job call / of its _runner thread
    outcome,    \* how target(...) ended in each _runner: <<>> while it has not
    poll,       \* the polling callback (monitor_*_job): position, reference, fields read
    file,       \* the MBTiles file at output_path: None, or Some(committed database)
    build,      \* VectorMBTilesBuilder.build: its inputs, position, connection and locals
    resp,       \* the tile server's last answer to GET /data/vectiles/{z}/{x}/{y}.pbf
    insts,      \* the PythonTileServer objects: _conn, _app, _server, _thread of each
    uvs,        \* the uvicorn.Server objects: owner, should_exit, force_exit, state
    threads,    \* the threads start() created: owner, state, the server object they run
    mgr,        \* TileServerManager: whether it is the caller, and its _python_server
    call,       \* the start()/stop() call in progress and how the last call returned
    config,     \* APP_CONFIG and the cached metadata files read when app.py is loaded
    stores,     \* the dcc.Store values of each browser session
    cb,         \* the Dash callback of app.py being executed
    conv,       \* position of convert_to_mbtiles in each job's runner thread
    callers     \* concurrent callers of TileServerManager.start / stop: position, locals

jobVars == <<jobs, lock, obj, job_id, pc, outcome, poll>>
tileVars == <<file, build, resp>>
srvVars == <<insts, uvs, threads, mgr, call>>
appVars == <<config, stores, cb, conv, callers>>
vars == <<jobs, lock, obj, job_id, pc, outcome, poll, file, build, resp,
          insts, uvs, threads, mgr, call, config, stores, cb, conv, callers>>

\* ------------------------------------------------------------- value sets
None == <<>>
Some(v) == <<v>>

Slots == 1..MaxJobs                 \* the create_job calls
Ids == 1..MaxJobs                   \* the uuid4 values that can be drawn
One == Scale                        \* the fraction 1.0
Zero == 0                           \* the fraction 0.0
ProgressInputs == (-1)..(One + 1)   \* what a target may pass as progress (also out of [0,1])
Messages == {"working"}             \* what a target may pass as message
Results == {"r1", "r2"}             \* return values of target
\* An exception: whether `except Exception` catches it, and its str()
Exceptions ==
    [caught : {TRUE}, msg : {"", "boom"}] \cup [caught : {FALSE}, msg : {"exit"}]

Min(a, b) == IF a < b THEN a ELSE b
Max(a, b) == IF a > b THEN a ELSE b

\* str(exc): the message the exception was built with; "" when it had none
Str(exc) == exc.msg

\* ------------------------------------------------------------ BackgroundJob
\* The dataclass with its defaults.
BackgroundJob(id) ==
    [job_id |-> id, status |-> "pending", message |-> "", progress |-> Zero,
     result |-> None, error |-> None]

\* BackgroundJob(job_id=job_id, status="running")
NewJob(id) == [BackgroundJob(id) EXCEPT !.status = "running"]

\* str(uuid.uuid4()): a value never drawn before.  Ids are only ever compared for
\* equality, so which fresh value is drawn makes no difference: the smallest is.
Unused == Ids \ {job_id[s] : s \in Slots}
Uuid4 == {id \in Unused : \A other \in Unused : id <= other}

Terminal == {"completed", "failed"}

\* ------------------------------------------------------------- create_job
\* job_id = str(uuid.uuid4()); job = BackgroundJob(job_id=job_id, status="running")
\* Slots number the calls in the order they reach this line.
Construct(s) ==
    /\ pc[s] = "idle"
    /\ \A t \in Slots : t < s => pc[t] # "idle"
    /\ \E id \in Uuid4 :
        /\ job_id' = [job_id EXCEPT ![s] = id]
        /\ obj' = obj @@ (s :> NewJob(id))
    /\ pc' = [pc EXCEPT ![s] = "constructed"]
    /\ UNCHANGED <<jobs, lock, outcome, poll, tileVars, srvVars, appVars>>

\* with self._lock: self._jobs[job_id] = job
RegisterEntry(reg, id, s) == [k \in (DOMAIN reg) \cup {id} |-> IF k = id THEN s ELSE reg[k]]

Register(s) ==
    /\ pc[s] = "constructed"
    /\ lock = 0
    /\ jobs' = RegisterEntry(jobs, job_id[s], s)
    /\ pc' = [pc EXCEPT ![s] = "registered"]
    /\ UNCHANGED <<lock, obj, job_id, outcome, poll, tileVars, srvVars, appVars>>

\* thread.start(); return job  -- the _runner thread prints and calls
\* target(*args, progress_callback=_progress_callback, **kwargs)
\* (a variant that would hold the lock while target runs, for comparison)
StartThreadLocked(s) ==
    /\ pc[s] = "registered"
    /\ lock = 0
    /\ lock' = s
    /\ pc' = [pc EXCEPT ![s] = "op"]
    /\ UNCHANGED <<jobs, obj, job_id, outcome, poll, tileVars, srvVars, appVars>>
StartThread(s) ==
    /\ pc[s] = "registered"
    /\ pc' = [pc EXCEPT ![s] = "op"]
    /\ UNCHANGED <<jobs, lock, obj, job_id, outcome, poll, tileVars, srvVars, appVars>>

\* ------------------------------------------------------ _progress_callback
\* tracked.progress = min(max(progress, 0.0), 1.0); tracked.message = message
Clamp(p) == Min(Max(p, Zero), One)

\* (a variant that would also reset the status, for comparison)
CallbackUpdateStatus(job, p, m) ==
    [job EXCEPT !.status = "running", !.progress = Clamp(p), !.message = m]
CallbackUpdate(job, p, m) ==
    [job EXCEPT !.progress = Clamp(p), !.message = m]

\* tracked = self._jobs.get(job_id): the object registered under the id; none when
\* the id is not registered (`if not tracked: return`)
\* (a variant that would find every job, for comparison)
TrackedAll(id) == Slots
Tracked(id) == IF id \in DOMAIN jobs THEN {jobs[id]} ELSE {}

\* The closure of call s invoked with (p, m), by the runner thread while target
\* is executing or by any thread target handed the closure to (which may be
\* after target ended).  The whole body runs under self._lock.
ProgressCallback(s, p, m) ==
    /\ pc[s] \notin {"idle", "constructed", "registered"}
    /\ lock = 0
    /\ obj' = [t \in DOMAIN obj |->
                 IF t \in Tracked(job_id[s]) THEN CallbackUpdate(obj[t], p, m) ELSE obj[t]]
    /\ UNCHANGED <<jobs, lock, job_id, pc, outcome, poll, tileVars, srvVars, appVars>>

\* ------------------------------------------------------------------ _runner
\* The writes of the two `with self._lock:` blocks, one attribute store each.
SetStatus(job, st) == [job EXCEPT !.status = st]
SetProgress(job, p) == [job EXCEPT !.progress = p]
SetMessage(job, m) == [job EXCEPT !.message = m]
\* (a variant that would drop the result, for comparison)
SetResultNone(job, r) == job
SetResult(job, r) == [job EXCEPT !.result = Some(r)]
SetError(job, e) == [job EXCEPT !.error = Some(e)]

\* result = target(...) returned r; with self._lock: job.status = "completed"
\* (the runner's wait for the lock is not a state of its own)
TargetReturns(s, r) ==
    /\ pc[s] = "op"
    /\ lock = 0
    /\ lock' = s
    /\ outcome' = [outcome EXCEPT ![s] = Some([kind |-> "return", value |-> r])]
    /\ obj' = [obj EXCEPT ![s] = SetStatus(@, "completed")]
    /\ pc' = [pc EXCEPT ![s] = "c_progress"]
    /\ UNCHANGED <<jobs, job_id, poll, tileVars, srvVars, appVars>>

\* the except clause: `except Exception` catches exc or not
Catches(exc) == exc.caught

\* target(...) raised exc.  Caught: with self._lock: job.status = "failed".
\* Not caught by `except Exception`: the exception leaves _runner and the thread
\* ends ("dead") without touching the job.
TargetRaises(s, exc) ==
    /\ pc[s] = "op"
    /\ lock = 0
    /\ outcome' = [outcome EXCEPT ![s] = Some([kind |-> "raise", value |-> exc])]
    /\ IF Catches(exc)
       THEN /\ lock' = s
            /\ obj' = [obj EXCEPT ![s] = SetStatus(@, "failed")]
            /\ pc' = [pc EXCEPT ![s] = "f_error"]
       ELSE /\ pc' = [pc EXCEPT ![s] = "dead"]
            /\ UNCHANGED <<lock, obj>>
    /\ UNCHANGED <<jobs, job_id, poll, tileVars, srvVars, appVars>>

ReturnValue(s) == outcome[s][1].value
Raised(s) == outcome[s][1].value

\* job.progress = 1.0
CompleteProgress(s) ==
    /\ pc[s] = "c_progress"
    /\ obj' = [obj EXCEPT ![s] = SetProgress(@, One)]
    /\ pc' = [pc EXCEPT ![s] = "c_message"]
    /\ UNCHANGED <<jobs, lock, job_id, outcome, poll, tileVars, srvVars, appVars>>

\* job.message = "Done"
CompleteMessage(s) ==
    /\ pc[s] = "c_message"
    /\ obj' = [obj EXCEPT ![s] = SetMessage(@, "Done")]
    /\ pc' = [pc EXCEPT ![s] = "c_result"]
    /\ UNCHANGED <<jobs, lock, job_id, outcome, poll, tileVars, srvVars, appVars>>

\* job.result = result; the lock is released
CompleteResult(s) ==
    /\ pc[s] = "c_result"
    /\ obj' = [obj EXCEPT ![s] = SetResult(@, ReturnValue(s))]
    /\ lock' = 0
    /\ pc' = [pc EXCEPT ![s] = "done"]
    /\ UNCHANGED <<jobs, job_id, outcome, poll, tileVars, srvVars, appVars>>

\* job.error = str(exc)
FailError(s) ==
    /\ pc[s] = "f_error"
    /\ obj' = [obj EXCEPT ![s] = SetError(@, Str(Raised(s)))]
    /\ pc' = [pc EXCEPT ![s] = "f_message"]
    /\ UNCHANGED <<jobs, lock, job_id, outcome, poll, tileVars, srvVars, appVars>>

\* job.message = "Failed"; the lock is released
FailMessage(s) ==
    /\ pc[s] = "f_message"
    /\ obj' = [obj EXCEPT ![s] = SetMessage(@, "Failed")]
    /\ lock' = 0
    /\ pc' = [pc EXCEPT ![s] = "done"]
    /\ UNCHANGED <<jobs, job_id, outcome, poll, tileVars, srvVars, appVars>>

RunnerStep(s) ==
    \/ \E r \in Results : TargetReturns(s, r)
    \/ \E exc \in Exceptions : TargetRaises(s, exc)
    \/ CompleteProgress(s) \/ CompleteMessage(s) \/ CompleteResult(s)
    \/ FailError(s) \/ FailMessage(s)

\* ------------------------------------------------------------------ get_job
\* with self._lock: return self._jobs.get(job_id) -- the registered object itself
\* (0 stands for None)
get_job(id) == IF id \in DOMAIN jobs THEN jobs[id] ELSE 0

\* ------------------------------------------- the poller (monitor_download_job)
\* Fields not read yet are None; a field read is Some(value).
PollIdle ==
    [pc |-> "idle", ref |-> 0, status |-> None, result |-> None, error |-> None,
     progress |-> None, message |-> None]

\* job = job_manager.get_job(job_data["job_id"]); if not job: return "Job not found."
PollGet(id) ==
    /\ poll.pc = "idle"
    /\ lock = 0
    /\ poll' = IF get_job(id) = 0 THEN PollIdle
               ELSE [PollIdle EXCEPT !.pc = "status1", !.ref = get_job(id)]
    /\ UNCHANGED <<jobs, lock, obj, job_id, pc, outcome, tileVars, srvVars, appVars>>

\* if job.status == "completed":
PollStatus1 ==
    /\ poll.pc = "status1"
    /\ poll' = [poll EXCEPT !.status = Some(obj[poll.ref].status),
                            !.pc = IF obj[poll.ref].status = "completed"
                                   THEN "result" ELSE "status2"]
    /\ UNCHANGED <<jobs, lock, obj, job_id, pc, outcome, tileVars, srvVars, appVars>>

\* return 100, "Download completed.", "green", None, job.result
PollResult ==
    /\ poll.pc = "result"
    /\ poll' = [poll EXCEPT !.result = Some(obj[poll.ref].result), !.pc = "report"]
    /\ UNCHANGED <<jobs, lock, obj, job_id, pc, outcome, tileVars, srvVars, appVars>>

\* if job.status == "failed":
PollStatus2 ==
    /\ poll.pc = "status2"
    /\ poll' = [poll EXCEPT !.status = Some(obj[poll.ref].status),
                            !.pc = IF obj[poll.ref].status = "failed"
                                   THEN "error" ELSE "progress"]
    /\ UNCHANGED <<jobs, lock, obj, job_id, pc, outcome, tileVars, srvVars, appVars>>

\* return 0, job.error or "Download failed.", "red", None, no_update
PollError ==
    /\ poll.pc = "error"
    /\ poll' = [poll EXCEPT !.error = Some(obj[poll.ref].error), !.pc = "report"]
    /\ UNCHANGED <<jobs, lock, obj, job_id, pc, outcome, tileVars, srvVars, appVars>>

\* progress_value = max(5, job.progress * 100)
PollProgress ==
    /\ poll.pc = "progress"
    /\ poll' = [poll EXCEPT !.progress = Some(obj[poll.ref].progress), !.pc = "message"]
    /\ UNCHANGED <<jobs, lock, obj, job_id, pc, outcome, tileVars, srvVars, appVars>>

\* return progress_value, job.message or "Downloading...", "blue", job_data, no_update
PollMessage ==
    /\ poll.pc = "message"
    /\ poll' = [poll EXCEPT !.message = Some(obj[poll.ref].message), !.pc = "report"]
    /\ UNCHANGED <<jobs, lock, obj, job_id, pc, outcome, tileVars, srvVars, appVars>>

\* the callback has returned what it read; the next interval tick starts afresh
PollReturn ==
    /\ poll.pc = "report"
    /\ poll' = PollIdle
    /\ UNCHANGED <<jobs, lock, obj, job_id, pc, outcome, tileVars, srvVars, appVars>>

\* ============================================================ tile pyramid
\* Geography is a square grid of cells, one cell per tile of zoom MaxZoom; a
\* geometry is the set of cells it covers (the empty set: an empty geometry).
\* Cell and tile rows count from the top, as XYZ rows do.
RECURSIVE Pow2(_)
Pow2(n) == IF n = 0 THEN 1 ELSE 2 * Pow2(n - 1)

GridSize == Pow2(MaxZoom)
Zooms == 0..MaxZoom
\* the XYZ coordinates <<z, x, y>> with x, y in [0, 2^z)
AllTiles ==
    UNION {{<<z, x, y>> : x \in 0..(Pow2(z) - 1), y \in 0..(Pow2(z) - 1)} : z \in Zooms}

PointAt(c) == {c}
DiagAt(c) == {c, <<c[1] + 1, c[2] + 1>>}
\* the geometries drawn as inputs: one cell in the first or last column, or two
\* cells touching at a corner (whose bounding box holds cells outside the geometry)
Geoms ==
    {PointAt(<<x, y>>) : x \in {0, GridSize - 1}, y \in 0..(GridSize - 1)}
    \cup {DiagAt(<<0, y>>) : y \in 0..(GridSize - 2)}

\* ------------------------------------------------------- GeoJSONLayerIndex
\* A layer source is what is at the layer's path: no file, or a feature
\* collection (the geometries of its features, in order).
NoFile == [exists |-> FALSE, geometries |-> <<>>]
FeatureCollection(geoms) == [exists |-> TRUE, geometries |-> geoms]

\* _load: no features when the path is missing; empty geometries are skipped
LoadFeatures(source) ==
    IF ~source.exists THEN <<>> ELSE SelectSeq(source.geometries, LAMBDA g : g # {})

SetMin(S) == CHOOSE m \in S : \A n \in S : m <= n
SetMax(S) == CHOOSE m \in S : \A n \in S : m >= n
\* geom.bounds as <<minx, miny, maxx, maxy>>, in cells
GeomBounds(g) ==
    <<SetMin({c[1] : c \in g}), SetMin({c[2] : c \in g}),
      SetMax({c[1] : c \in g}), SetMax({c[2] : c \in g})>>

\* _compute_bounds over the layer's geometries
ComputeBounds(features) ==
    LET bs == {GeomBounds(features[i]) : i \in 1..Len(features)}
    IN  <<SetMin({b[1] : b \in bs}), SetMin({b[2] : b \in bs}),
          SetMax({b[3] : b \in bs}), SetMax({b[4] : b \in bs})>>

GeoJSONLayerIndex(name, source) ==
    LET features == LoadFeatures(source)
    IN  [name |-> name, features |-> features,
         bounds |-> IF features = <<>> THEN None ELSE Some(ComputeBounds(features))]

\* the cells of tile t, and a geometry clipped to t in tile-local cell coordinates
TileSpan(z) == Pow2(MaxZoom - z)
TileCells(t) ==
    {c \in (0..(GridSize - 1)) \X (0..(GridSize - 1)) :
        c[1] \div TileSpan(t[1]) = t[2] /\ c[2] \div TileSpan(t[1]) = t[3]}
Clip(g, t) ==
    {<<c[1] - t[2] * TileSpan(t[1]), c[2] - t[3] * TileSpan(t[1])>> : c \in g \cap TileCells(t)}

\* query: the clipped geometries of the features meeting the tile, empty clips dropped
Query(layer, t) ==
    LET clipped == [i \in 1..Len(layer.features) |-> Clip(layer.features[i], t)]
    IN  SelectSeq(clipped, LAMBDA g : g # {})

\* ---------------------------------------------------- VectorMBTilesBuilder
\* layer_indexes and valid_layers of build
LayerIndexes(layers) ==
    [i \in 1..Len(layers) |-> GeoJSONLayerIndex(layers[i].name, layers[i].source)]
\* (a variant that would keep the layers without features, for comparison)
ValidLayersAll(layers) == LayerIndexes(layers)
ValidLayers(layers) == SelectSeq(LayerIndexes(layers), LAMBDA l : l.features # <<>>)

\* _combined_bounds
CombinedBounds(valid) ==
    LET bs == {valid[i].bounds[1] : i \in {j \in 1..Len(valid) : valid[j].bounds # None}}
    IN  IF bs = {} THEN None
        ELSE Some(<<SetMin({b[1] : b \in bs}), SetMin({b[2] : b \in bs}),
                    SetMax({b[3] : b \in bs}), SetMax({b[4] : b \in bs})>>)

\* mercantile.tiles(minx, miny, maxx, maxy, zoom): the tiles of that zoom meeting the box
TilesOfBounds(b, z) ==
    {<<z, x, y>> : x \in (b[1] \div TileSpan(z))..(b[3] \div TileSpan(z)),
                   y \in (b[2] \div TileSpan(z))..(b[4] \div TileSpan(z))}

TileLess(t, u) ==
    \/ t[1] < u[1]
    \/ t[1] = u[1] /\ t[2] < u[2]
    \/ t[1] = u[1] /\ t[2] = u[2] /\ t[3] < u[3]

RECURSIVE Sorted(_)
Sorted(S) ==
    IF S = {} THEN <<>>
    ELSE LET m == CHOOSE t \in S : \A u \in S \ {t} : TileLess(t, u)
         IN  <<m>> \o Sorted(S \ {m})

\* _collect_candidate_tiles: sorted(tile_keys)
CollectCandidateTiles(valid, min_zoom, max_zoom) ==
    Sorted(UNION {UNION {UNION {TilesOfBounds(GeomBounds(valid[i].features[k]), z)
                                   : z \in min_zoom..max_zoom}
                            : k \in 1..Len(valid[i].features)}
                     : i \in 1..Len(valid)})

\* _encode_tile: None when no layer has a hit, else the encoding of layer_payload
\* (mapbox_vector_tile.encode is one-to-one on layer payloads)
\* (a variant that would encode a tile for every candidate, for comparison)
EncodeTileAlways(t, valid) == Some(<<"mvt", <<>> >>)
EncodeTile(t, valid) ==
    LET hit == SelectSeq(valid, LAMBDA l : Query(l, t) # <<>>)
        layer_payload == [i \in 1..Len(hit) |->
                            [name |-> hit[i].name, features |-> Query(hit[i], t)]]
    IN  IF layer_payload = <<>> THEN None ELSE Some(<<"mvt", layer_payload>>)

\* A database: whether the two tables exist, the metadata rows in insertion order,
\* and the tiles rows <<zoom_level, tile_column, tile_row, tile_data>>.
EmptyDb == [schema |-> FALSE, metadata |-> <<>>, tiles |-> {}]

\* _initialize_db: CREATE TABLE IF NOT EXISTS ..., DELETE FROM metadata,
\* DELETE FROM tiles, CREATE UNIQUE INDEX IF NOT EXISTS tile_index
InitializeDb(db) == [schema |-> TRUE, metadata |-> <<>>, tiles |-> {}]

\* _write_metadata: the rows appended by executemany.  center holds the sums
\* west + east and south + north (twice the centre) to stay in integers.
MetadataRows(bounds, valid, min_zoom, max_zoom) ==
    << <<"name", "OSM Layers">>,
       <<"description", "Generated from GeoJSON via Python builder">>,
       <<"format", "pbf">>,
       <<"bounds", bounds>>,
       <<"center", <<bounds[1] + bounds[3], bounds[2] + bounds[4], min_zoom>> >>,
       <<"minzoom", min_zoom>>,
       <<"maxzoom", max_zoom>>,
       <<"json", [i \in 1..Len(valid) |->
                    [id |-> valid[i].name, minzoom |-> min_zoom, maxzoom |-> max_zoom]]>> >>
\* (a variant that would write the rows twice, for comparison)
WriteMetadataTwice(db, rows) == [db EXCEPT !.metadata = @ \o rows \o rows]
WriteMetadata(db, rows) == [db EXCEPT !.metadata = @ \o rows]

\* _insert_tile: tms_row = (2 ** tile.z - 1) - tile.y
\* (a variant off by one, for comparison)
InsertTmsRowOffByOne(z, y) == Pow2(z) - y
InsertTmsRow(z, y) == (Pow2(z) - 1) - y

\* INSERT OR REPLACE INTO tiles under the unique index on
\* (zoom_level, tile_column, tile_row)
\* (a plain INSERT without the unique index, for comparison)
InsertPlain(rows, z, x, row, data) == rows \cup {<<z, x, row, data>>}
InsertOrReplace(rows, z, x, row, data) ==
    {r \in rows : <<r[1], r[2], r[3]>> # <<z, x, row>>} \cup {<<z, x, row, data>>}
InsertTile(rows, t, data) ==
    InsertOrReplace(rows, t[1], t[2], InsertTmsRow(t[1], t[3]), data)

\* A call of build: its arguments and locals.  round numbers the calls on this
\* builder, prev keeps how the call before ended (None: there was none), and
\* rolled_back counts the inserts a failure of this call undid.
BuildIdle(layers, min_zoom, max_zoom) ==
    [pc |-> "idle", layers |-> layers, min_zoom |-> min_zoom, max_zoom |-> max_zoom,
     valid |-> <<>>, bounds |-> None, cands |-> <<>>, tiles |-> {}, tile_count |-> 0,
     inserted |-> {}, result |-> None, error |-> None, round |-> 1, prev |-> None,
     rolled_back |-> 0]

\* build, up to the checks before the output path is touched
BuildLoad ==
    /\ build.pc = "idle"
    /\ LET valid == ValidLayers(build.layers)
       IN  build' =
             IF valid = <<>>
             THEN [build EXCEPT !.pc = "failed",
                                !.error = Some("No GeoJSON layers contained features.")]
             ELSE IF CombinedBounds(valid) = None
             THEN [build EXCEPT !.pc = "failed",
                                !.error = Some("Unable to determine dataset bounds.")]
             ELSE [build EXCEPT !.pc = "unlink", !.valid = valid,
                                !.bounds = CombinedBounds(valid)]
    /\ UNCHANGED <<file, resp, jobVars, srvVars, appVars>>

\* if self.output_path.exists(): self._safe_unlink()
BuildUnlink ==
    /\ build.pc = "unlink"
    /\ file' = None
    /\ build' = [build EXCEPT !.pc = "connect"]
    /\ UNCHANGED <<resp, jobVars, srvVars, appVars>>

\* sqlite3.connect(self.output_path): an empty database file when there is none
BuildConnect ==
    /\ build.pc = "connect"
    /\ file' = IF file = None THEN Some(EmptyDb) ELSE file
    /\ build' = [build EXCEPT !.pc = "init"]
    /\ UNCHANGED <<resp, jobVars, srvVars, appVars>>

\* self._initialize_db(conn), committed
BuildInitializeDb ==
    /\ build.pc = "init"
    /\ file' = Some(InitializeDb(file[1]))
    /\ build' = [build EXCEPT !.pc = "metadata"]
    /\ UNCHANGED <<resp, jobVars, srvVars, appVars>>

\* self._write_metadata(conn, bounds, valid_layers), committed; tile_count = 0 and
\* the candidate list of the loop
BuildWriteMetadata ==
    /\ build.pc = "metadata"
    /\ file' = Some(WriteMetadata(file[1], MetadataRows(build.bounds[1], build.valid,
                                                        build.min_zoom, build.max_zoom)))
    /\ build' = [build EXCEPT !.pc = "tiles", !.tile_count = 0,
                    !.tiles = file[1].tiles,
                    !.cands = CollectCandidateTiles(build.valid, build.min_zoom,
                                                    build.max_zoom)]
    /\ UNCHANGED <<resp, jobVars, srvVars, appVars>>

\* one pass of the loop over the candidates: the insert stays in the connection's
\* open transaction (build.tiles) until the commit
BuildTile ==
    /\ build.pc = "tiles"
    /\ build.cands # <<>>
    /\ LET t == Head(build.cands)
           encoded == EncodeTile(t, build.valid)
       IN  build' =
             IF encoded # None
             THEN [build EXCEPT !.cands = Tail(@),
                                !.tiles = InsertTile(@, t, encoded[1]),
                                !.inserted = @ \cup {<<t, encoded[1]>>},
                                !.tile_count = @ + 1]
             ELSE [build EXCEPT !.cands = Tail(@)]
    /\ UNCHANGED <<file, resp, jobVars, srvVars, appVars>>

\* `with sqlite3.connect(...) as conn` left by an exception: the connection rolls
\* the open transaction back, so the committed rows stay and the pending are lost
\* (a variant that would commit the pending rows, for comparison)
OnExceptionCommit(committed, pending) == pending
OnException(committed, pending) == committed

\* an exception inside the loop: the `with conn` block rolls the open transaction
\* back, and the locals of the call are gone
BuildTileRaises ==
    /\ build.pc = "tiles"
    /\ build.cands # <<>>
    /\ file' = Some([file[1] EXCEPT !.tiles = OnException(@, build.tiles)])
    /\ build' = [build EXCEPT !.pc = "failed", !.tiles = {}, !.inserted = {},
                              !.cands = <<>>, !.tile_count = 0,
                              !.rolled_back = Cardinality(build.tiles),
                              !.error = Some("encode failed")]
    /\ UNCHANGED <<resp, jobVars, srvVars, appVars>>

\* return {"bounds": bounds, "tiles_written": tile_count}
\* (a variant that would add to the count of the call before, for comparison)
BuildResultCumulative(bounds, tile_count) ==
    [bounds |-> bounds,
     tiles_written |-> tile_count +
        (IF build.prev # None /\ build.prev[1].result # None
         THEN build.prev[1].result[1].tiles_written ELSE 0)]
BuildResult(bounds, tile_count) == [bounds |-> bounds, tiles_written |-> tile_count]

\* conn.commit(); return {"bounds": bounds, "tiles_written": tile_count}
BuildCommit ==
    /\ build.pc = "tiles"
    /\ build.cands = <<>>
    /\ file' = Some([file[1] EXCEPT !.tiles = build.tiles])
    /\ build' = [build EXCEPT !.pc = "done",
                    !.result = Some(BuildResult(build.bounds[1], build.tile_count))]
    /\ UNCHANGED <<resp, jobVars, srvVars, appVars>>

\* the populated (zoom_level, tile_column, tile_row) coordinates of a tiles relation
Coordinates(rows) == {<<r[1], r[2], r[3]>> : r \in rows}

\* build is called again on the same builder with the same layers, once the call
\* before has ended (it returned or raised)
BuildAgain ==
    /\ build.pc \in {"done", "failed"}
    /\ build.round < MaxBuilds
    /\ resp = None
    /\ build' = [BuildIdle(build.layers, build.min_zoom, build.max_zoom) EXCEPT
                    !.round = build.round + 1,
                    !.prev = Some([result |-> build.result,
                                   coordinates |-> IF file = None THEN {}
                                                   ELSE Coordinates(file[1].tiles)])]
    /\ UNCHANGED <<file, resp, jobVars, srvVars, appVars>>

\* -------------------------------------------------------- PythonTileServer
\* _fetch_tile: tms_y = (2 ** z - 1) - y
\* (a variant without the flip, for comparison)
FetchRowUnflipped(z, y) == y
FetchTmsY(z, y) == (Pow2(z) - 1) - y

\* SELECT tile_data FROM tiles WHERE zoom_level=? AND tile_column=? AND tile_row=?
\* fetchone(): None when there is no row, else bytes(row["tile_data"])
SelectTile(db, z, x, row) ==
    LET found == {r \in db.tiles : r[1] = z /\ r[2] = x /\ r[3] = row}
    IN  IF found = {} THEN None ELSE Some((CHOOSE r \in found : TRUE)[4])
FetchTile(db, z, x, y) == SelectTile(db, z, x, FetchTmsY(z, y))

\* the route handler tile(z, x, y): 404 when _fetch_tile gives None, else the payload;
\* a query on a database without the tiles table raises (a server error)
TileResponse(db, z, x, y) ==
    IF ~db.schema THEN <<"error">>
    ELSE IF FetchTile(db, z, x, y) = None THEN <<"not_found">>
    ELSE <<"ok", FetchTile(db, z, x, y)[1]>>

\* A request served from the store once the build has ended (the application
\* stops the server before a rebuild and starts it when the job has ended).
Fetch(t) ==
    /\ file # None
    /\ build.pc \in {"done", "failed"}
    /\ resp = None
    /\ resp' = Some([tile |-> t, answer |-> TileResponse(file[1], t[1], t[2], t[3])])
    /\ UNCHANGED <<file, build, jobVars, srvVars, appVars>>

\* the response has been sent
FetchReturn ==
    /\ resp # None
    /\ resp' = None
    /\ UNCHANGED <<file, build, jobVars, srvVars, appVars>>

\* ------------------------------------------------------------ specification
\* BackgroundJobManager.__init__: self._jobs = {}; self._lock = threading.Lock()
JobInit ==
    /\ jobs = <<>>
    /\ lock = 0
    /\ obj = <<>>
    /\ job_id = [s \in Slots |-> 0]
    /\ pc = [s \in Slots |-> "idle"]
    /\ outcome = [s \in Slots |-> None]
    /\ poll = PollIdle

JobNext ==
    \/ \E s \in Slots : Construct(s)
    \/ \E s \in Slots : Register(s)
    \/ \E s \in Slots : StartThread(s)
    \/ \E s \in Slots, p \in ProgressInputs, m \in Messages : ProgressCallback(s, p, m)
    \/ \E s \in Slots, r \in Results : TargetReturns(s, r)
    \/ \E s \in Slots, exc \in Exceptions : TargetRaises(s, exc)
    \/ \E s \in Slots : CompleteProgress(s)
    \/ \E s \in Slots : CompleteMessage(s)
    \/ \E s \in Slots : CompleteResult(s)
    \/ \E s \in Slots : FailError(s)
    \/ \E s \in Slots : FailMessage(s)

PollNext ==
    \/ \E id \in Ids : PollGet(id)
    \/ PollStatus1
    \/ PollResult
    \/ PollStatus2
    \/ PollError
    \/ PollProgress
    \/ PollMessage
    \/ PollReturn

\* what a completed build of these inputs leaves in the file
RECURSIVE InsertAll(_, _, _)
InsertAll(rows, cands, valid) ==
    IF cands = <<>> THEN rows
    ELSE LET encoded == EncodeTile(Head(cands), valid)
         IN  InsertAll(IF encoded = None THEN rows
                       ELSE InsertTile(rows, Head(cands), encoded[1]),
                       Tail(cands), valid)
BuiltDb(layers, min_zoom, max_zoom) ==
    LET valid == ValidLayers(layers)
    IN  [schema |-> TRUE,
         metadata |-> MetadataRows(CombinedBounds(valid)[1], valid, min_zoom, max_zoom),
         tiles |-> InsertAll({}, CollectCandidateTiles(valid, min_zoom, max_zoom), valid)]

\* The inputs explored: two named layers, the first over any source, the second
\* missing or a single cell in a corner; any zoom range within 0..MaxZoom.
RoadSources ==
    {NoFile, FeatureCollection(<< {} >>)} \cup {FeatureCollection(<<g>>) : g \in Geoms}
BuildingSources ==
    {NoFile, FeatureCollection(<<PointAt(<<0, 0>>)>>),
     FeatureCollection(<<PointAt(<<GridSize - 1, GridSize - 1>>)>>)}
LayerInputs ==
    {<<[name |-> "roads", source |-> r], [name |-> "buildings", source |-> b]>> :
        r \in RoadSources, b \in BuildingSources}
\* the store an earlier build left at output_path
StaleDb ==
    BuiltDb(<<[name |-> "roads",
               source |-> FeatureCollection(<<PointAt(<<GridSize - 1, 0>>)>>)]>>, 0, MaxZoom)

\* ------------------------------------------- PythonTileServer: start / stop
\* Objects are numbered in the order they are constructed; 0 stands for None.
\* __init__: _conn, _app, _server and _thread are None (conn and app say whether
\* the connection is open and the FastAPI app is built)
NewServer == [conn |-> FALSE, app |-> FALSE, server |-> 0, thread |-> 0]

\* uvicorn.Server(config) as constructed, owned by PythonTileServer object i
NewUvicorn(i) == [owner |-> i, should_exit |-> FALSE, force_exit |-> FALSE, state |-> "new"]

\* threading.Thread(target=_runner, daemon=True) after start()
NewThread(i) == [owner |-> i, state |-> "started", uv |-> 0]

\* self.mbtiles_path.exists()
ExistsAlways(f) == TRUE
Exists(f) == f # None

\* self._thread and self._thread.is_alive()
IsAlive(ths, t) == t # 0 /\ ths[t].state # "ended"

\* no call in progress; op and ret tell the last call that returned and its value,
\* refused whether some start() returned False
CallIdle == [pc |-> "idle", inst |-> 0, op |-> "none", ret |-> FALSE, refused |-> FALSE]

\* The body of start(block=False) on object i from line 32 on (the store exists):
\* _ensure_app opens the connection when it builds the app, and only then; a new
\* uvicorn.Server replaces self._server; a thread is created unless one is alive.
AfterStart(is, i) ==
    LET k == Len(uvs) + 1
        t == Len(threads) + 1
        alive == IsAlive(threads, is[i].thread)
    IN  [insts |-> [is EXCEPT ![i] = [conn |-> IF is[i].app THEN is[i].conn ELSE TRUE,
                                       app |-> TRUE,
                                       server |-> k,
                                       thread |-> IF alive THEN is[i].thread ELSE t]],
         uvs |-> Append(uvs, NewUvicorn(i)),
         threads |-> IF alive THEN threads ELSE Append(threads, NewThread(i))]

\* start() called on object i by its user
Start(i) ==
    /\ ~mgr.used
    /\ call.pc = "idle"
    /\ IF ~Exists(file)
       THEN /\ call' = [call EXCEPT !.op = "start", !.ret = FALSE, !.refused = TRUE]
            /\ UNCHANGED <<insts, uvs, threads>>
       ELSE /\ Len(uvs) < MaxStarts
            /\ insts' = AfterStart(insts, i).insts
            /\ uvs' = AfterStart(insts, i).uvs
            /\ threads' = AfterStart(insts, i).threads
            /\ call' = [call EXCEPT !.op = "start", !.ret = TRUE]
    /\ UNCHANGED <<mgr, jobVars, tileVars, appVars>>

\* some uvicorn server is listening on the port
PortInUse == \E k \in DOMAIN uvs : uvs[k].state = "serving"

\* The thread's _runner reaches self._server.run(): it runs the server object that
\* self._server names at that moment.  None: the call raises and the thread ends.
\* The port is taken, or should_exit is already set: run() returns and the thread
\* ends.  Otherwise the server listens.
ThreadRun(t) ==
    /\ threads[t].state = "started"
    /\ LET k == insts[threads[t].owner].server
       IN  IF k = 0
           THEN /\ threads' = [threads EXCEPT ![t].state = "ended"]
                /\ UNCHANGED uvs
           ELSE IF PortInUse \/ uvs[k].should_exit
           THEN /\ threads' = [threads EXCEPT ![t].state = "ended", ![t].uv = k]
                /\ uvs' = [uvs EXCEPT ![k].state = "exited"]
           ELSE /\ threads' = [threads EXCEPT ![t].state = "serving", ![t].uv = k]
                /\ uvs' = [uvs EXCEPT ![k].state = "serving"]
    /\ UNCHANGED <<insts, mgr, call, jobVars, tileVars, appVars>>

\* The listening server sees should_exit: it stops accepting, waits for the request
\* in flight unless force_exit is set (then the request is dropped), and run()
\* returns, which ends the thread.
ListenerExit(t) ==
    /\ threads[t].state = "serving"
    /\ uvs[threads[t].uv].should_exit
    /\ uvs[threads[t].uv].force_exit \/ resp = None
    /\ uvs' = [uvs EXCEPT ![threads[t].uv].state = "exited"]
    /\ threads' = [threads EXCEPT ![t].state = "ended"]
    /\ resp' = None
    /\ UNCHANGED <<insts, mgr, call, file, build, jobVars, appVars>>

\* stop(), lines 57-60: the server object self._server names is told to exit
Signalled(us, k) ==
    IF k = 0 THEN us ELSE [us EXCEPT ![k].should_exit = TRUE, ![k].force_exit = TRUE]

StopSignal(i) ==
    /\ ~mgr.used
    /\ call.pc = "idle"
    /\ uvs' = Signalled(uvs, insts[i].server)
    /\ call' = [call EXCEPT !.pc = "join", !.inst = i]
    /\ UNCHANGED <<insts, threads, mgr, jobVars, tileVars, appVars>>

\* stop(), lines 65-69: _thread and _server are dropped, the connection is closed
Released(is, i) == [is EXCEPT ![i].thread = 0, ![i].server = 0, ![i].conn = FALSE]

\* TileServerManager.stop, line 75: self._python_server = None
Forgotten(m) == [m EXCEPT !.python_server = 0]

\* stop(), lines 61-69: there is no live thread, or the join returned because the
\* thread ended
StopJoined ==
    /\ call.pc = "join"
    /\ ~IsAlive(threads, insts[call.inst].thread)
    /\ insts' = Released(insts, call.inst)
    /\ mgr' = Forgotten(mgr)
    /\ call' = [call EXCEPT !.pc = "idle", !.inst = 0, !.op = "stop", !.ret = TRUE]
    /\ UNCHANGED <<uvs, threads, jobVars, tileVars, appVars>>

\* stop(), lines 61-69: both join(timeout=5) expired with the thread still alive
StopTimeout ==
    /\ call.pc = "join"
    /\ IsAlive(threads, insts[call.inst].thread)
    /\ insts' = Released(insts, call.inst)
    /\ mgr' = Forgotten(mgr)
    /\ call' = [call EXCEPT !.pc = "idle", !.inst = 0, !.op = "stop", !.ret = FALSE]
    /\ UNCHANGED <<uvs, threads, jobVars, tileVars, appVars>>

\* ------------------------------------------------------- TileServerManager
\* __init__: no _python_server (used: the manager is the caller of start and stop)
NewManager == [used |-> TRUE, python_server |-> 0]
NoManager == [used |-> FALSE, python_server |-> 0]

\* start() without a tileserver-gl binary: _start_python_server
MgrStart ==
    /\ mgr.used
    /\ call.pc = "idle"
    /\ IF mgr.python_server # 0
       THEN /\ call' = [call EXCEPT !.op = "start", !.ret = TRUE]
            /\ UNCHANGED <<insts, uvs, threads, mgr>>
       ELSE IF ~Exists(file)
       THEN /\ call' = [call EXCEPT !.op = "start", !.ret = FALSE, !.refused = TRUE]
            /\ UNCHANGED <<insts, uvs, threads, mgr>>
       ELSE /\ Len(uvs) < MaxStarts
            /\ LET i == Len(insts) + 1
                   after == AfterStart(Append(insts, NewServer), i)
               IN  /\ insts' = after.insts
                   /\ uvs' = after.uvs
                   /\ threads' = after.threads
                   /\ mgr' = [mgr EXCEPT !.python_server = i]
            /\ call' = [call EXCEPT !.op = "start", !.ret = TRUE]
    /\ UNCHANGED <<jobVars, tileVars, appVars>>

\* stop() with a _python_server: its stop() begins
MgrStopSignal ==
    /\ mgr.used
    /\ call.pc = "idle"
    /\ mgr.python_server # 0
    /\ uvs' = Signalled(uvs, insts[mgr.python_server].server)
    /\ call' = [call EXCEPT !.pc = "join", !.inst = mgr.python_server]
    /\ UNCHANGED <<insts, threads, mgr, jobVars, tileVars, appVars>>

\* ------------------------------------------------- requests to the listener
\* self._conn.execute(...) in _fetch_tile: without a connection the handler raises
\* (a server error); else the answer of the route handler
Answer(has_conn, db, t) ==
    IF has_conn THEN TileResponse(db, t[1], t[2], t[3]) ELSE <<"error">>

\* GET /data/vectiles/{z}/{x}/{y}.pbf arrives at the listening server; the app it
\* serves reads the _conn of the PythonTileServer that built it
Request(t) ==
    /\ resp = None
    /\ \E k \in DOMAIN uvs :
        /\ uvs[k].state = "serving"
        /\ ~uvs[k].should_exit
        /\ resp' = Some([tile |-> t,
                         answer |-> Answer(insts[uvs[k].owner].conn, file[1], t)])
    /\ UNCHANGED <<file, build, jobVars, srvVars, appVars>>

\* a build has left a store at the path the server is configured with
StoreAppears ==
    /\ file = None
    /\ file' = Some(StaleDb)
    /\ UNCHANGED <<build, resp, jobVars, srvVars, appVars>>

\* ------------------------------------------------------ the style document
\* Texts are sequences of characters.  str(n) of a non-negative int, and int(text)
\* of a text of decimal digits.
Digits == <<"0", "1", "2", "3", "4", "5", "6", "7", "8", "9">>
DigitValue(c) == (CHOOSE i \in DOMAIN Digits : Digits[i] = c) - 1
RECURSIVE StrOfInt(_)
StrOfInt(n) == IF n < 10 THEN <<Digits[n + 1]>> ELSE Append(StrOfInt(n \div 10), Digits[(n % 10) + 1])
RECURSIVE IntOfStr(_)
IntOfStr(text) ==
    IF Len(text) = 1 THEN DigitValue(text[1])
    ELSE 10 * IntOfStr(SubSeq(text, 1, Len(text) - 1)) + DigitValue(text[Len(text)])

\* str.lower() on the letters the layer ids explored are written with
UpperCase == <<"A", "D", "E", "I", "L", "N", "O", "R">>
LowerCase == <<"a", "d", "e", "i", "l", "n", "o", "r">>
LowerChar(c) ==
    IF \E i \in DOMAIN UpperCase : UpperCase[i] = c
    THEN LowerCase[CHOOSE i \in DOMAIN UpperCase : UpperCase[i] = c]
    ELSE c
Lower(text) == [i \in 1..Len(text) |-> LowerChar(text[i])]

\* sub in text
Contains(text, sub) ==
    \E i \in 0..(Len(text) - Len(sub)) : SubSeq(text, i + 1, i + Len(sub)) = sub

\* _metadata: {row["name"]: row["value"] for row in rows}; a later row of the same
\* name replaces an earlier one
Metadata(rows) ==
    [k \in {rows[i][1] : i \in DOMAIN rows} |->
        rows[SetMax({i \in DOMAIN rows : rows[i][1] = k})][2]]

\* dict.get(key, default)
Get(d, k, default) == IF k \in DOMAIN d THEN d[k] ELSE default

\* int(metadata.get(key, default)) with an integer default
GetInt(d, k, default) == IF k \in DOMAIN d THEN IntOfStr(d[k]) ELSE default

\* The text of the json row: the empty text, a text json.loads rejects, or the
\* text of an object whose "vector_layers" member is absent (None) or a list of
\* layer objects, each with an "id" member (None when absent, else a text).
EmptyText == [empty |-> TRUE, parses |-> FALSE, vector_layers |-> None]
Unparsable == [empty |-> FALSE, parses |-> FALSE, vector_layers |-> None]
JsonObject(layers) == [empty |-> FALSE, parses |-> TRUE, vector_layers |-> layers]

\* if the value is falsy: None or the empty text
Falsy(v) == v = None \/ v = Some(<<>>)

\* _vector_layers
VectorLayers(metadata) ==
    LET meta_json == Get(metadata, "json", EmptyText)
    IN  IF meta_json.empty THEN <<>>
        ELSE IF ~meta_json.parses THEN <<>>
        ELSE LET layers == IF meta_json.vector_layers = None THEN <<>>
                           ELSE meta_json.vector_layers[1]
                 kept == SelectSeq(layers, LAMBDA layer : ~Falsy(layer.id))
             IN  [i \in 1..Len(kept) |-> kept[i].id[1]]

palette ==
    <<"#FF6B6B", "#FFD93D", "#6BCB77", "#4D96FF", "#C77DFF", "#FF8FB1", "#F3A712", "#14B8A6">>

TextLine == <<"l", "i", "n", "e">>
TextRoad == <<"r", "o", "a", "d">>

\* `"line" in layer_id_lower or "road" in layer_id_lower`
\* (a variant that would test the id as written, for comparison)
IsLineLayerCaseSensitive(layer_id) == Contains(layer_id, TextLine) \/ Contains(layer_id, TextRoad)
IsLineLayer(layer_id) ==
    Contains(Lower(layer_id), TextLine) \/ Contains(Lower(layer_id), TextRoad)

\* _style_entry (idx counts from 0)
StyleEntry(layer_id, idx) ==
    LET color == palette[(idx % Len(palette)) + 1]
    IN  IF IsLineLayer(layer_id)
        THEN [id |-> layer_id, source |-> "vectiles", source_layer |-> layer_id,
              type |-> "line", paint |-> [color |-> color, width |-> 2]]
        ELSE [id |-> layer_id, source |-> "vectiles", source_layer |-> layer_id,
              type |-> "fill", paint |-> [color |-> color, opacity |-> 5]]

\* _style_payload over the rows of the metadata table (fill-opacity 0.5 is kept in
\* tenths; the tile URL template is kept as its host and port)
StylePayload(rows, host, port) ==
    LET metadata == Metadata(rows)
        vector_layers == VectorLayers(metadata)
    IN  [version |-> 8,
         source |-> [type |-> "vector", tiles |-> <<[host |-> host, port |-> port]>>,
                     minzoom |-> GetInt(metadata, "minzoom", 5),
                     maxzoom |-> GetInt(metadata, "maxzoom", 12)],
         layers |-> [i \in 1..Len(vector_layers) |-> StyleEntry(vector_layers[i], i - 1)]]

\* GET /styles/osm-bright/style.json on a server with its connection open
StyleRequest ==
    /\ file # None
    /\ resp = None
    /\ resp' = Some([style |-> StylePayload(file[1].metadata, "127.0.0.1", 8090)])
    /\ UNCHANGED <<file, build, jobVars, srvVars, appVars>>

\* The layer ids explored, and the descriptors: up to MaxLayers entries taken in
\* turn from the ids, starting anywhere; entries without id or with an empty id.
LayerIdPool ==
    << <<"r", "o", "a", "d", "s">>,
       <<"b", "u", "i", "l", "d", "i", "n", "g", "s">>,
       <<"R", "a", "i", "l", "_", "L", "I", "N", "E">>,
       <<"l", "i", "n">>,
       <<"M", "a", "i", "n", "R", "o", "A", "d">>,
       <<"w", "a", "t", "e", "r">> >>
LayerIdList(start, n) ==
    [i \in 1..n |-> [id |-> Some(LayerIdPool[((start + i - 2) % Len(LayerIdPool)) + 1])]]
Descriptors ==
    {Some(JsonObject(Some(LayerIdList(start, n)))) :
        start \in DOMAIN LayerIdPool, n \in 0..MaxLayers}
    \cup {Some(JsonObject(Some(<<[id |-> None]>> \o LayerIdList(1, 2) \o <<[id |-> Some(<<>>)]>>
                                \o LayerIdList(3, 1)))),
          Some(JsonObject(None)), Some(Unparsable), Some(EmptyText), None}

\* the zoom rows explored: present with the text of a number, or absent
ZoomRows(key) ==
    {<< <<key, StrOfInt(z)>> >> : z \in Zooms \cup {10 + MaxZoom}} \cup {<<>>}
JsonRows(d) == IF d = None THEN <<>> ELSE << <<"json", d[1]>> >>

\* a store whose metadata table holds those rows after the fixed ones
StyledStores ==
    {[schema |-> TRUE,
      metadata |-> << <<"name", "OSM Layers">>, <<"format", "pbf">> >> \o lo \o hi \o JsonRows(d),
      tiles |-> {}] :
        lo \in ZoomRows("minzoom"), hi \in ZoomRows("maxzoom"), d \in Descriptors}

\* ------------------------------------------------------- app.py callbacks
\* The application without a tileserver-gl and without a tippecanoe binary.  The
\* output path of the conversion is the path the tile server is configured with.
Sessions == 1..MaxSessions

\* What is read when app.py is loaded: whether APP_CONFIG has an "mbtiles" entry
\* (the one of config.py has none), what latest_run.json holds (nothing, files that
\* exist, files that are gone), and whether latest_mbtiles.json exists.
ShippedConfigs ==
    [mbtiles : {FALSE}, processed : {"none", "inputs", "no_inputs"}, cached_mbtiles : BOOLEAN]
Configs ==
    ShippedConfigs \cup
    [mbtiles : {TRUE}, processed : {"none", "inputs", "no_inputs"}, cached_mbtiles : BOOLEAN]

\* mbtiles_meta, the value convert_to_mbtiles returns and latest_mbtiles.json holds
StoreMeta == [mbtiles_path |-> "openmaptiles.mbtiles"]

\* dcc.Store(id="mbtiles-job-store"), dcc.Store(id="mbtiles-metadata-store",
\* data=c_cached_mbtiles) of a session that has loaded the page
NotLoaded == [loaded |-> FALSE, job |-> None, meta |-> None]
Layout(c) == [loaded |-> TRUE, job |-> None,
              meta |-> IF c.cached_mbtiles THEN Some(StoreMeta) ELSE None]

CbIdle == [pc |-> "idle", session |-> 0, njobs |-> 0]
Callback(name, u) == [pc |-> name, session |-> u, njobs |-> Cardinality(DOMAIN obj)]

\* convert_to_mbtiles in the runner of slot s: position, and whether the output
\* path still names the file its connection opened
ConvIdle == [pc |-> "start", mine |-> FALSE]

\* the layers processed earlier, which the conversion reads
AppLayers ==
    <<[name |-> "roads", source |-> FeatureCollection(<<DiagAt(<<0, 0>>)>>)],
      [name |-> "buildings", source |-> FeatureCollection(<<PointAt(<<0, 0>>)>>)]>>

\* module level, lines 58-66: the server is started when the cached metadata names
\* a store that exists
Boot ==
    /\ cb.pc = "boot"
    /\ cb' = IF config.cached_mbtiles /\ Exists(file)
             THEN Callback("boot_start", 0) ELSE CbIdle
    /\ UNCHANGED <<config, stores, conv, callers, jobVars, tileVars, srvVars>>

\* tileserver_manager.start() called by the callback being executed
StartingCallbacks == {"boot_start", "monitor_start", "toggle_start"}
AppMgrStart ==
    /\ cb.pc \in StartingCallbacks
    /\ call.op = "none"
    /\ MgrStart

\* the module-level start() returned
BootDone ==
    /\ cb.pc = "boot_start"
    /\ call.op = "start"
    /\ cb' = CbIdle
    /\ call' = CallIdle
    /\ UNCHANGED <<config, stores, conv, callers, jobVars, tileVars, insts, uvs, threads, mgr>>

\* A session loads or reloads the page: its stores get the data of the layout, and
\* toggle_local_tile_card, which has no prevent_initial_call, is called.
PageLoad(u) ==
    /\ cb.pc = "idle"
    /\ stores' = [stores EXCEPT ![u] = Layout(config)]
    /\ cb' = Callback("toggle", u)
    /\ UNCHANGED <<config, conv, callers, jobVars, tileVars, srvVars>>

\* toggle_local_tile_card(meta, mbtiles_job), lines 602-608, up to the start() call
Toggle ==
    /\ cb.pc = "toggle"
    /\ LET u == cb.session
       IN  IF stores[u].job # None THEN cb' = CbIdle
           ELSE IF stores[u].meta # None THEN cb' = Callback("toggle_start", u)
           ELSE cb' = CbIdle
    /\ call' = CallIdle
    /\ UNCHANGED <<config, stores, conv, callers, jobVars, tileVars, insts, uvs, threads, mgr>>

\* toggle_local_tile_card: start() returned
ToggleDone ==
    /\ cb.pc = "toggle_start"
    /\ call.op = "start"
    /\ cb' = CbIdle
    /\ call' = CallIdle
    /\ UNCHANGED <<config, stores, conv, callers, jobVars, tileVars, insts, uvs, threads, mgr>>

\* start_mbtiles_job, lines 556-562: the button is enabled while the session's job
\* store is empty (coordinator_button_states); without processed data the callback
\* returns at line 561
ClickConvert(u) ==
    /\ cb.pc = "idle"
    /\ stores[u].loaded
    /\ stores[u].job = None
    /\ config.processed # "none"
    /\ \E s \in Slots : pc[s] = "idle"
    /\ cb' = Callback("stop", u)
    /\ call' = CallIdle
    /\ UNCHANGED <<config, stores, conv, callers, jobVars, tileVars, insts, uvs, threads, mgr>>

\* start_mbtiles_job, line 563: tileserver_manager.stop() with a _python_server
AppMgrStop ==
    /\ cb.pc = "stop"
    /\ call.op = "none"
    /\ MgrStopSignal

\* start_mbtiles_job, line 563: stop() returned, or there was no _python_server
Stopped ==
    /\ cb.pc = "stop"
    /\ call.pc = "idle"
    /\ mgr.python_server = 0
    /\ cb' = [cb EXCEPT !.pc = "create"]
    /\ call' = CallIdle
    /\ UNCHANGED <<config, stores, conv, callers, jobVars, tileVars, insts, uvs, threads, mgr>>

\* start_mbtiles_job, line 565: job_manager.create_job(convert_to_mbtiles, ...)
AppConstruct ==
    /\ cb.pc = "create"
    /\ Cardinality(DOMAIN obj) = cb.njobs
    /\ \E s \in Slots : Construct(s)

\* start_mbtiles_job, line 566: create_job returned the job; the job store of the
\* session gets its id, which calls toggle_local_tile_card
ClickReturn ==
    /\ cb.pc = "create"
    /\ LET s == cb.njobs + 1
       IN  /\ s \in DOMAIN obj
           /\ pc[s] \notin {"idle", "constructed", "registered"}
           /\ stores' = [stores EXCEPT ![cb.session].job = Some(job_id[s])]
    /\ cb' = Callback("toggle", cb.session)
    /\ UNCHANGED <<config, conv, callers, jobVars, tileVars, srvVars>>

\* monitor_mbtiles_job, lines 581-593, on a poll tick of a session whose job store
\* names a job that has ended (for a running job the stores are left as they are):
\* completed, the server is started first; failed or unknown, the job store is
\* emptied, which calls toggle_local_tile_card
Tick(u) ==
    /\ cb.pc = "idle"
    /\ stores[u].loaded
    /\ stores[u].job # None
    /\ LET job == get_job(stores[u].job[1])
       IN  IF job = 0 \/ obj[job].status = "failed"
           THEN /\ stores' = [stores EXCEPT ![u].job = None]
                /\ cb' = Callback("toggle", u)
           ELSE /\ obj[job].status = "completed"
                /\ cb' = Callback("monitor_start", u)
                /\ UNCHANGED stores
    /\ call' = CallIdle
    /\ UNCHANGED <<config, conv, callers, jobVars, tileVars, insts, uvs, threads, mgr>>

\* monitor_mbtiles_job, line 589: start() returned; the job store is emptied and the
\* metadata store gets job.result as it is now, which calls toggle_local_tile_card
MonitorDone ==
    /\ cb.pc = "monitor_start"
    /\ call.op = "start"
    /\ LET u == cb.session
       IN  stores' = [stores EXCEPT ![u].job = None,
                                    ![u].meta = obj[get_job(stores[u].job[1])].result]
    /\ cb' = Callback("toggle", cb.session)
    /\ call' = CallIdle
    /\ UNCHANGED <<config, conv, callers, jobVars, tileVars, insts, uvs, threads, mgr>>

\* ------------------------------------------------------ convert_to_mbtiles
\* lines 107-127: APP_CONFIG["mbtiles"] raises KeyError without that entry; no
\* input file that exists raises ValueError
ConvertConfig(s) ==
    /\ pc[s] = "op"
    /\ conv[s].pc = "start"
    /\ conv' = [conv EXCEPT ![s].pc = IF ~config.mbtiles THEN "key_error"
                                      ELSE IF config.processed = "no_inputs" THEN "value_error"
                                      ELSE "callback"]
    /\ UNCHANGED <<config, stores, cb, callers, jobVars, tileVars, srvVars>>

\* the exception convert_to_mbtiles ends with
ConvertError(where) ==
    [caught |-> TRUE,
     msg |-> IF where = "key_error" THEN "'mbtiles'"
             ELSE IF where = "value_error" THEN "No GeoJSON files found to convert."
             ELSE "database is locked"]

ConvertRaises(s) ==
    /\ conv[s].pc \in {"key_error", "value_error", "locked"}
    /\ TargetRaises(s, ConvertError(conv[s].pc))

\* 0.2 in units of 1/Scale, rounded down
Fifth == (2 * Scale) \div 10

\* line 163: progress_callback(0.2, "Building MBTiles via Python...")
ConvertCallback(s) ==
    /\ pc[s] = "op"
    /\ conv[s].pc = "callback"
    /\ lock = 0
    /\ obj' = [t \in DOMAIN obj |->
                 IF t \in Tracked(job_id[s])
                 THEN CallbackUpdate(obj[t], Fifth, "Building MBTiles via Python...")
                 ELSE obj[t]]
    /\ conv' = [conv EXCEPT ![s].pc = "unlink"]
    /\ UNCHANGED <<config, stores, cb, callers, jobs, lock, job_id, pc, outcome, poll,
                   tileVars, srvVars>>

\* builder.build up to line 134: the layers are loaded and the output path is
\* unlinked; a connection another build has open keeps its file, without a name
ConvertUnlink(s) ==
    /\ pc[s] = "op"
    /\ conv[s].pc = "unlink"
    /\ file' = None
    /\ conv' = [t \in Slots |-> IF t = s THEN [pc |-> "connect", mine |-> FALSE]
                                ELSE [conv[t] EXCEPT !.mine = FALSE]]
    /\ UNCHANGED <<config, stores, cb, callers, build, resp, jobVars, srvVars>>

\* another build has an open transaction on the file at the output path
LockedByOther(s) ==
    \E t \in Slots \ {s} : pc[t] = "op" /\ conv[t].pc = "tiles" /\ conv[t].mine

\* builder.build, lines 137-139: the connection creates the file or opens the one
\* that is there; the tables are emptied and the metadata written and committed.
\* While another build writes the same file the DELETE waits for its transaction,
\* and raises when that has begun to insert and does not end in time.
ConvertConnect(s) ==
    /\ pc[s] = "op"
    /\ conv[s].pc = "connect"
    /\ \/ /\ file' = Some(WriteMetadata(InitializeDb(IF file = None THEN EmptyDb ELSE file[1]),
                              MetadataRows(CombinedBounds(ValidLayers(AppLayers))[1],
                                           ValidLayers(AppLayers), 0, MaxZoom)))
          /\ conv' = [conv EXCEPT ![s] = [pc |-> "tiles", mine |-> TRUE]]
       \/ /\ LockedByOther(s)
          /\ conv' = [conv EXCEPT ![s].pc = "locked"]
          /\ UNCHANGED file
    /\ UNCHANGED <<config, stores, cb, callers, build, resp, jobVars, srvVars>>

\* builder.build, lines 140-147: the tiles are inserted and committed, into the
\* file the connection opened
ConvertCommit(s) ==
    /\ pc[s] = "op"
    /\ conv[s].pc = "tiles"
    /\ file' = IF conv[s].mine
               THEN Some([file[1] EXCEPT !.tiles =
                            InsertAll(@, CollectCandidateTiles(ValidLayers(AppLayers), 0, MaxZoom),
                                      ValidLayers(AppLayers))])
               ELSE file
    /\ conv' = [conv EXCEPT ![s].pc = "written"]
    /\ UNCHANGED <<config, stores, cb, callers, build, resp, jobVars, srvVars>>

\* lines 166-173: latest_mbtiles.json is written; progress_callback(1.0, "MBTiles ready.")
ConvertFinish(s) ==
    /\ pc[s] = "op"
    /\ conv[s].pc = "written"
    /\ lock = 0
    /\ obj' = [t \in DOMAIN obj |->
                 IF t \in Tracked(job_id[s])
                 THEN CallbackUpdate(obj[t], One, "MBTiles ready.")
                 ELSE obj[t]]
    /\ conv' = [conv EXCEPT ![s].pc = "return"]
    /\ UNCHANGED <<config, stores, cb, callers, jobs, lock, job_id, pc, outcome, poll,
                   tileVars, srvVars>>

\* line 174: return mbtiles_meta
ConvertReturns(s) ==
    /\ conv[s].pc = "return"
    /\ TargetReturns(s, StoreMeta)

\* the final writes of the runner
RunnerEnds(s) ==
    \/ CompleteProgress(s) \/ CompleteMessage(s) \/ CompleteResult(s)
    \/ FailError(s) \/ FailMessage(s)

AppInit ==
    /\ JobInit
    /\ file \in {None, Some(StaleDb)}
    /\ build = BuildIdle(<<>>, 0, 0)
    /\ resp = None
    /\ insts = <<>> /\ uvs = <<>> /\ threads = <<>>
    /\ mgr = NewManager
    /\ call = CallIdle
    /\ config \in Configs
    /\ stores = [u \in Sessions |-> NotLoaded]
    /\ cb = Callback("boot", 0)
    /\ conv = [s \in Slots |-> ConvIdle]
    /\ callers = <<>>

AppNext ==
    \/ Boot
    \/ AppMgrStart
    \/ BootDone
    \/ \E u \in Sessions : PageLoad(u)
    \/ Toggle
    \/ ToggleDone
    \/ \E u \in Sessions : ClickConvert(u)
    \/ AppMgrStop
    \/ StopJoined
    \/ StopTimeout
    \/ Stopped
    \/ AppConstruct
    \/ \E s \in Slots : Register(s)
    \/ \E s \in Slots : StartThread(s)
    \/ ClickReturn
    \/ \E u \in Sessions : Tick(u)
    \/ MonitorDone
    \/ \E s \in Slots : ConvertConfig(s)
    \/ \E s \in Slots : ConvertRaises(s)
    \/ \E s \in Slots : ConvertCallback(s)
    \/ \E s \in Slots : ConvertUnlink(s)
    \/ \E s \in Slots : ConvertConnect(s)
    \/ \E s \in Slots : ConvertCommit(s)
    \/ \E s \in Slots : ConvertFinish(s)
    \/ \E s \in Slots : ConvertReturns(s)
    \/ \E s \in Slots : RunnerEnds(s)
    \/ \E t \in DOMAIN threads : ThreadRun(t)
    \/ \E t \in DOMAIN threads : ListenerExit(t)

\* ------------------------------- TileServerManager called from several threads
\* The callbacks of app.py run in the threads of the web server; each caller is
\* one of them, inside tileserver_manager.start() or .stop() or outside (idle).
Callers == 1..MaxCallers
CallerIdle == [pc |-> "idle", inst |-> 0, ret |-> FALSE]

\* start(), _start_python_server lines 61-65: a _python_server is there, or the
\* store is missing, or the caller goes on to construct one
MStartCheck(c) ==
    /\ callers[c].pc = "idle"
    /\ callers' = [callers EXCEPT ![c] =
                     IF mgr.python_server # 0 THEN [CallerIdle EXCEPT !.ret = TRUE]
                     ELSE IF ~Exists(file) THEN CallerIdle
                     ELSE [CallerIdle EXCEPT !.pc = "construct"]]
    /\ callers' # callers
    /\ UNCHANGED <<config, stores, cb, conv, jobVars, tileVars, srvVars>>

\* line 66: self._python_server = PythonTileServer(self.mbtiles_path, self.port)
MStartConstruct(c) ==
    /\ callers[c].pc = "construct"
    /\ Len(insts) < MaxStarts
    /\ insts' = Append(insts, NewServer)
    /\ mgr' = [mgr EXCEPT !.python_server = Len(insts) + 1]
    /\ callers' = [callers EXCEPT ![c].pc = "start", ![c].inst = Len(insts) + 1]
    /\ UNCHANGED <<config, stores, cb, conv, jobVars, tileVars, uvs, threads, call>>

\* line 67: return self._python_server.start() -- on the object the attribute names
\* now; None: the call raises AttributeError
MStartServer(c) ==
    /\ callers[c].pc = "start"
    /\ LET i == mgr.python_server
       IN  IF i = 0 \/ ~Exists(file)
           THEN /\ callers' = [callers EXCEPT ![c] = CallerIdle]
                /\ UNCHANGED <<insts, uvs, threads>>
           ELSE /\ Len(uvs) < MaxStarts
                /\ insts' = AfterStart(insts, i).insts
                /\ uvs' = AfterStart(insts, i).uvs
                /\ threads' = AfterStart(insts, i).threads
                /\ callers' = [callers EXCEPT ![c] = [CallerIdle EXCEPT !.ret = TRUE]]
    /\ UNCHANGED <<config, stores, cb, conv, jobVars, tileVars, mgr, call>>

\* stop(), lines 73-74 with a _python_server: its stop() begins (lines 57-60)
MStopSignal(c) ==
    /\ callers[c].pc = "idle"
    /\ mgr.python_server # 0
    /\ uvs' = Signalled(uvs, insts[mgr.python_server].server)
    /\ callers' = [callers EXCEPT ![c] = [pc |-> "join", inst |-> mgr.python_server, ret |-> FALSE]]
    /\ UNCHANGED <<config, stores, cb, conv, jobVars, tileVars, insts, threads, mgr, call>>

\* PythonTileServer.stop, lines 61-69: the thread has ended (the joins are taken to
\* last until then); _thread, _server and the connection are dropped
MStopJoined(c) ==
    /\ callers[c].pc = "join"
    /\ ~IsAlive(threads, insts[callers[c].inst].thread)
    /\ insts' = Released(insts, callers[c].inst)
    /\ callers' = [callers EXCEPT ![c].pc = "forget"]
    /\ UNCHANGED <<config, stores, cb, conv, jobVars, tileVars, uvs, threads, mgr, call>>

\* line 75: self._python_server = None
MStopForget(c) ==
    /\ callers[c].pc = "forget"
    /\ mgr' = Forgotten(mgr)
    /\ callers' = [callers EXCEPT ![c] = CallerIdle]
    /\ UNCHANGED <<config, stores, cb, conv, jobVars, tileVars, insts, uvs, threads, call>>

ManagerInit ==
    /\ JobInit
    /\ file = None
    /\ build = BuildIdle(<<>>, 0, 0)
    /\ resp = None
    /\ insts = <<>> /\ uvs = <<>> /\ threads = <<>>
    /\ mgr = NewManager
    /\ call = CallIdle
    /\ config = <<>> /\ stores = <<>> /\ cb = <<>> /\ conv = <<>>
    /\ callers = [c \in Callers |-> CallerIdle]

ManagerNext ==
    \/ \E c \in Callers : MStartCheck(c)
    \/ \E c \in Callers : MStartConstruct(c)
    \/ \E c \in Callers : MStartServer(c)
    \/ \E c \in Callers : MStopSignal(c)
    \/ \E c \in Callers : MStopJoined(c)
    \/ \E c \in Callers : MStopForget(c)
    \/ \E t \in DOMAIN threads : ThreadRun(t)
    \/ \E t \in DOMAIN threads : ListenerExit(t)
    \/ StoreAppears

TileQuiet ==
    /\ file = None
    /\ build = BuildIdle(<<>>, 0, 0)
    /\ resp = None

ServerQuiet ==
    /\ insts = <<>>
    /\ uvs = <<>>
    /\ threads = <<>>
    /\ mgr = NoManager
    /\ call = CallIdle

\* no application around the modules: nothing configured, no session, no callback
AppQuiet ==
    /\ config = <<>>
    /\ stores = <<>>
    /\ cb = <<>>
    /\ conv = <<>>
    /\ callers = <<>>

\* One PythonTileServer used directly, or a TileServerManager without a tileserver-gl
\* binary; the store is absent or was left by an earlier build.
ServerInit ==
    /\ file \in {None, Some(StaleDb)}
    /\ build = BuildIdle(<<>>, 0, 0)
    /\ resp = None
    /\ \/ insts = <<NewServer>> /\ mgr = NoManager
       \/ insts = <<>> /\ mgr = NewManager
    /\ uvs = <<>>
    /\ threads = <<>>
    /\ call = CallIdle

ServerNext ==
    \/ \E i \in DOMAIN insts : Start(i)
    \/ \E i \in DOMAIN insts : StopSignal(i)
    \/ StopJoined
    \/ StopTimeout
    \/ MgrStart
    \/ MgrStopSignal
    \/ \E t \in DOMAIN threads : ThreadRun(t)
    \/ \E t \in DOMAIN threads : ListenerExit(t)
    \/ \E t \in AllTiles : Request(t)
    \/ FetchReturn
    \/ StoreAppears

\* VectorMBTilesBuilder.__init__ (min_zoom <= max_zoom, else it raises) on an
\* output path that is absent or holds an earlier build's store
TileInit ==
    /\ file \in {None, Some(StaleDb)}
    /\ build \in {BuildIdle(l, lo, hi) : l \in LayerInputs,
                                         lo \in Zooms, hi \in Zooms}
    /\ build.min_zoom <= build.max_zoom
    /\ resp = None

BuildNext ==
    \/ BuildLoad
    \/ BuildUnlink
    \/ BuildConnect
    \/ BuildInitializeDb
    \/ BuildWriteMetadata
    \/ BuildTile
    \/ BuildTileRaises
    \/ BuildCommit

TileNext ==
    \/ BuildNext
    \/ \E t \in AllTiles : Fetch(t)
    \/ FetchReturn

\* The job manager with its runner threads and progress callbacks.
Init == JobInit /\ TileQuiet /\ ServerQuiet /\ AppQuiet
Next == JobNext
Spec == Init /\ [][Next]_vars

\* The job manager together with a polling callback reading a job's fields.
NextPoll == JobNext \/ PollNext
SpecPoll == Init /\ [][NextPoll]_vars

\* One build of the tile store, and the tile server answering requests from it.
InitTiles == JobInit /\ TileInit /\ ServerQuiet /\ AppQuiet
NextTiles == TileNext
SpecTiles == InitTiles /\ [][NextTiles]_vars

\* The tile server's start and stop, its listener threads and the requests they serve.
InitServer == JobInit /\ ServerInit /\ AppQuiet
NextServer == ServerNext
SpecServer == InitServer /\ [][NextServer]_vars

\* The style route of the tile server on the stores a builder can leave.
InitStyle ==
    /\ JobInit /\ ServerQuiet /\ AppQuiet
    /\ file \in {Some(db) : db \in StyledStores}
    /\ build = BuildIdle(<<>>, 0, 0)
    /\ resp = None
NextStyle == StyleRequest \/ FetchReturn
SpecStyle == InitStyle /\ [][NextStyle]_vars

\* The application: sessions loading the page, clicking and polling, the convert
\* jobs they start, and the tile server the callbacks start and stop.
InitApp == AppInit
NextApp == AppNext
SpecApp == InitApp /\ [][NextApp]_vars

\* The TileServerManager called by callbacks that run at the same time.
InitManager == ManagerInit
NextManager == ManagerNext
SpecManager == InitManager /\ [][NextManager]_vars

\* Up to MaxBuilds calls of build in a row on one builder and output path.
NextRebuild == BuildNext \/ BuildAgain
SpecRebuild == InitTiles /\ [][NextRebuild]_vars

\* ================================================================== claims
Created == DOMAIN obj
Returned(s) == outcome[s] # None /\ outcome[s][1].kind = "return"
RaisedCaught(s) ==
    outcome[s] # None /\ outcome[s][1].kind = "raise" /\ outcome[s][1].value.caught
AnyCallback(s) == \E p \in ProgressInputs, m \in Messages : ProgressCallback(s, p, m)
\* a step of job s: its progress callback or a step of its runner
JobStep(s) == AnyCallback(s) \/ RunnerStep(s)

\* C1: when target returned r, the runner leaves the job completed with result r and
\* error unset, and the step that ends the runner's final write leaves progress at 1.0.
C1_CompletedOnReturn ==
    [][\A s \in Slots :
         (pc'[s] = "done" /\ Returned(s)') =>
            /\ obj'[s].status = "completed"
            /\ obj'[s].result = Some(outcome'[s][1].value)
            /\ obj'[s].error = None
            /\ (pc[s] = "c_result" => obj'[s].progress = One)]_vars

C1_Witness ==
    \E s \in Slots :
        /\ pc[s] = "done" /\ Returned(s)
        /\ obj[s].status = "completed" /\ obj[s].progress = One
        /\ obj[s].result = Some("r2") /\ obj[s].message = "Done"

\* C2: a job whose target raised an exception the runner catches ends failed, with
\* a non-empty error text and no result.
C2_FailedHasError ==
    \A s \in Slots :
        (pc[s] = "done" /\ RaisedCaught(s)) =>
            /\ obj[s].status = "failed"
            /\ obj[s].error # None
            /\ obj[s].error # Some("")
            /\ obj[s].result = None

\* C3: a status of completed or failed never changes again, whatever step is taken,
\* and no job that get_job can return has status pending.
C3_TerminalAbsorbing ==
    [][/\ \A s \in Created : obj[s].status \in Terminal => obj'[s].status = obj[s].status
       /\ \A id \in Ids : get_job(id)' # 0 => obj'[get_job(id)'].status # "pending"]_vars

C3_Witness ==
    \E s \in Slots, t \in Slots :
        /\ s # t
        /\ pc[s] = "done" /\ obj[s].status = "completed" /\ obj[s].message = "working"
        /\ t \in Created /\ get_job(job_id[t]) = t /\ obj[t].status = "failed"

\* C4: a progress callback invoked after the runner wrote the job's final state
\* leaves every field of the job as it was.
C4_LateCallbackNoOp ==
    [][\A s \in Slots :
         (pc[s] = "done" /\ obj[s].status \in Terminal /\ AnyCallback(s))
            => obj'[s] = obj[s]]_vars

\* C5: what a poller reads from the job get_job gave it is consistent: completed never
\* comes with an unset result or a progress other than 1.0, failed never with an unset error.
C5_SnapshotConsistent ==
    /\ (poll.status = Some("completed") /\ poll.result # None) => poll.result[1] # None
    /\ (poll.status = Some("completed") /\ poll.progress # None) => poll.progress[1] = One
    /\ (poll.status = Some("failed") /\ poll.error # None) => poll.error[1] # None

\* C6: the progress of a registered job never decreases.
C6_ProgressMonotone ==
    [][\A id \in DOMAIN jobs : obj'[jobs'[id]].progress >= obj[jobs[id]].progress]_vars

\* C7: the jobs created have pairwise distinct ids, and a step of one job (callback,
\* runner write) leaves every other job's object unchanged.
C7_JobsIndependent ==
    [][/\ \A s \in Created', t \in Created' : s # t => obj'[s].job_id # obj'[t].job_id
       /\ \A s \in Slots : JobStep(s) => \A t \in Created \ {s} : obj'[t] = obj[t]]_vars

C7_Witness ==
    \E s \in Slots, t \in Slots :
        /\ s # t /\ {s, t} \subseteq Created
        /\ obj[s].job_id # obj[t].job_id
        /\ get_job(job_id[s]) = s /\ get_job(job_id[t]) = t
        /\ pc[s] = "done" /\ obj[s].status = "completed" /\ obj[s].progress = One
        /\ pc[t] = "op" /\ obj[t].status = "running" /\ obj[t].progress = Zero

\* C8: a job whose runner thread has ended, target having returned or raised, has
\* status completed or failed.
C8_EndedIsTerminal ==
    \A s \in Slots : pc[s] \in {"done", "dead"} => obj[s].status \in Terminal

Rows(z) == 0..(Pow2(z) - 1)
\* the payloads the finished build passed to _insert_tile for XYZ coordinate t
InsertedFor(t) == {e[2] : e \in {i \in build.inserted : i[1] = t}}

\* C9: for every zoom z and row y in [0, 2^z), the flip of the builder's write and of
\* the server's read stay in [0, 2^z), undo each other and themselves, and reach every
\* row; so does the row of every tile the builder has inserted.
C9_RowFlipInvolution ==
    /\ \A z \in Zooms : \A y \in Rows(z) :
        /\ InsertTmsRow(z, y) \in Rows(z)
        /\ FetchTmsY(z, y) \in Rows(z)
        /\ FetchTmsY(z, InsertTmsRow(z, y)) = y
        /\ InsertTmsRow(z, InsertTmsRow(z, y)) = y
        /\ FetchTmsY(z, FetchTmsY(z, y)) = y
        /\ \E y2 \in Rows(z) : InsertTmsRow(z, y2) = y
    /\ \A i \in build.inserted :
        \E r \in build.tiles :
            /\ r[1] = i[1][1] /\ r[2] = i[1][2] /\ r[3] \in Rows(r[1])
            /\ FetchTmsY(r[1], r[3]) = i[1][3]

C9_Witness ==
    /\ build.pc = "done"
    /\ resp # None
    /\ resp[1].tile[1] = MaxZoom
    /\ InsertTmsRow(resp[1].tile[1], resp[1].tile[3]) # resp[1].tile[3]
    /\ <<resp[1].tile[1], resp[1].tile[2],
         InsertTmsRow(resp[1].tile[1], resp[1].tile[3])>> \in
            {<<r[1], r[2], r[3]>> : r \in file[1].tiles}

\* C10: after a successful build, the server answers the request for XYZ coordinate t
\* with the payload the builder inserted for t, and with not-found when it inserted
\* none for t.
C10_RoundTrip ==
    build.pc = "done" =>
        /\ \A t \in AllTiles :
            IF InsertedFor(t) = {}
            THEN TileResponse(file[1], t[1], t[2], t[3]) = <<"not_found">>
            ELSE /\ TileResponse(file[1], t[1], t[2], t[3])[1] = "ok"
                 /\ InsertedFor(t) = {TileResponse(file[1], t[1], t[2], t[3])[2]}
        /\ resp # None =>
            IF InsertedFor(resp[1].tile) = {}
            THEN resp[1].answer = <<"not_found">>
            ELSE resp[1].answer[1] = "ok" /\ resp[1].answer[2] \in InsertedFor(resp[1].tile)

C10_Witness ==
    /\ build.pc = "done"
    /\ build.tile_count > 1
    /\ resp # None
    /\ resp[1].answer[1] = "ok"
    /\ resp[1].tile[1] > 0
    /\ resp[1].tile[3] = 0
    /\ Len(resp[1].answer[2][2]) = 2
    /\ \E t \in AllTiles : t[1] = resp[1].tile[1] /\ InsertedFor(t) = {}

\* C11: when a build that succeeded is repeated with the same layers, zoom range and
\* output path and succeeds again, it returns the same tiles_written and leaves the
\* same set of populated (zoom_level, tile_column, tile_row) coordinates.
C11_RebuildIdempotent ==
    (build.pc = "done" /\ build.prev # None /\ build.prev[1].result # None) =>
        /\ build.result[1].tiles_written = build.prev[1].result[1].tiles_written
        /\ Coordinates(file[1].tiles) = build.prev[1].coordinates
        /\ build.result[1].bounds = build.prev[1].result[1].bounds

C11_Witness ==
    /\ build.pc = "done" /\ build.round = 2
    /\ build.prev # None /\ build.prev[1].result # None
    /\ build.result[1].tiles_written > 1
    /\ Cardinality(build.prev[1].coordinates) > 1

NoLayerHasFeatures ==
    \A i \in 1..Len(build.layers) : LoadFeatures(build.layers[i].source) = <<>>
NoFeaturesError == Some("No GeoJSON layers contained features.")

\* C12: a build whose layers all load no feature fails with the no-features error,
\* and the step in which it does leaves the file at the output path as it was
\* (absent stays absent, an existing store keeps its content).
C12_NoFeaturesNoWrite ==
    [][(build.pc = "idle" /\ NoLayerHasFeatures) =>
            /\ file' = file
            /\ build'.pc = "failed"
            /\ build'.error = NoFeaturesError]_vars

C12_Witness ==
    /\ build.pc = "failed" /\ build.error = NoFeaturesError
    /\ build.layers[1].source.exists /\ ~build.layers[2].source.exists
    /\ file = Some(StaleDb)

\* the candidate tiles of the build, and those some surviving layer's query hits
Candidates ==
    LET cands == CollectCandidateTiles(build.valid, build.min_zoom, build.max_zoom)
    IN  {cands[i] : i \in 1..Len(cands)}
HitCandidates ==
    {t \in Candidates : \E i \in 1..Len(build.valid) : Query(build.valid[i], t) # <<>>}

\* C13: after a successful build the rows of the tiles relation are exactly those of
\* the candidate tiles that some surviving layer's query hits; the other candidates
\* have no row.
C13_OnlyNonEmptyPersisted ==
    build.pc = "done" =>
        /\ Coordinates(file[1].tiles) =
              {<<t[1], t[2], InsertTmsRow(t[1], t[3])>> : t \in HitCandidates}
        /\ \A r \in file[1].tiles : r[4][2] # <<>>

C13_Witness ==
    /\ build.pc = "done"
    /\ HitCandidates # {}
    /\ Candidates \ HitCandidates # {}
    /\ Cardinality(file[1].tiles) = Cardinality(HitCandidates)

Unique(rows) ==
    \A r1 \in rows, r2 \in rows :
        <<r1[1], r1[2], r1[3]>> = <<r2[1], r2[2], r2[3]>> => r1 = r2
OtherPayload == <<"mvt", <<>> >>

\* C14: the tiles relation, committed or in the open transaction, never holds two rows
\* with the same (zoom_level, tile_column, tile_row); and a tile written into the
\* store at any coordinate leaves one row there, with the payload written, and the
\* other rows as they were.
C14_OneRowPerCoordinate ==
    /\ Unique(build.tiles)
    /\ file # None =>
        /\ Unique(file[1].tiles)
        /\ \A t \in AllTiles :
            LET old == file[1].tiles
                new == InsertTile(old, t, OtherPayload)
                at == <<t[1], t[2], InsertTmsRow(t[1], t[3])>>
            IN  /\ Unique(new)
                /\ <<at[1], at[2], at[3], OtherPayload>> \in new
                /\ Coordinates(new) = Coordinates(old) \cup {at}
                /\ {r \in new : <<r[1], r[2], r[3]>> # at} =
                      {r \in old : <<r[1], r[2], r[3]>> # at}

C14_Witness ==
    /\ build.pc = "done" /\ build.round = 2
    /\ Cardinality(file[1].tiles) > 1
    /\ \E t \in AllTiles :
        /\ <<t[1], t[2], InsertTmsRow(t[1], t[3])>> \in Coordinates(file[1].tiles)
        /\ Cardinality(InsertTile(file[1].tiles, t, OtherPayload)) =
              Cardinality(file[1].tiles)

RequiredKeys ==
    {"name", "description", "format", "bounds", "center", "minzoom", "maxzoom", "json"}
Keyed(md, k) == {i \in 1..Len(md) : md[i][1] = k}

\* C15: after a successful build, whatever builds came before, the metadata relation
\* holds one row for each required key and no other row, and the rows are those the
\* latest build wrote.
C15_MetadataOnePerKey ==
    build.pc = "done" =>
        /\ \A k \in RequiredKeys : Cardinality(Keyed(file[1].metadata, k)) = 1
        /\ Len(file[1].metadata) = Cardinality(RequiredKeys)
        /\ file[1].metadata =
              MetadataRows(build.bounds[1], build.valid, build.min_zoom, build.max_zoom)

C15_Witness ==
    /\ build.pc = "done" /\ build.round = 2
    /\ build.prev # None /\ build.prev[1].result # None
    /\ Len(file[1].metadata) = 8
    /\ Len(build.valid) = 2

\* PythonTileServer object i has a live thread whose server is listening
Running(i) ==
    /\ IsAlive(threads, insts[i].thread)
    /\ threads[insts[i].thread].state = "serving"
AnyStart == MgrStart \/ \E i \in DOMAIN insts : Start(i)

\* C16: start() on a PythonTileServer whose listener is running returns True and
\* changes nothing: _conn, _app, _server and _thread of the object, the uvicorn
\* server objects and the threads are as before.
C16_StartWhileRunningNoOp ==
    [][\A i \in DOMAIN insts :
         (Running(i) /\ Start(i)) =>
            /\ call'.ret = TRUE
            /\ insts'[i] = insts[i]
            /\ uvs' = uvs
            /\ threads' = threads]_vars

\* C17: while the store file is absent nothing of the server exists (no connection,
\* no uvicorn server, no thread, no _python_server in the manager); a start() of
\* PythonTileServer or of TileServerManager made then returns False and changes
\* none of that nor the file, and a start() made when the file exists returns True.
C17_StartWithoutStore ==
    [][/\ file = None =>
            /\ \A i \in DOMAIN insts : insts[i] = NewServer
            /\ uvs = <<>> /\ threads = <<>> /\ mgr.python_server = 0
       /\ (file = None /\ AnyStart) =>
            /\ call'.ret = FALSE
            /\ insts' = insts /\ uvs' = uvs /\ threads' = threads /\ mgr' = mgr
            /\ file' = None
       /\ (file # None /\ AnyStart) => call'.ret = TRUE]_vars

C17_Witness ==
    /\ mgr.used /\ mgr.python_server # 0
    /\ call.op = "start" /\ call.ret /\ call.refused
    /\ Running(mgr.python_server)
    /\ insts[mgr.python_server].conn

\* C18: the step of stop() that signals sets should_exit on every listening uvicorn
\* server of that PythonTileServer object.
C18_StopSignalsRunning ==
    [][\A i \in DOMAIN insts :
         (StopSignal(i) \/ (MgrStopSignal /\ mgr.python_server = i)) =>
            \A k \in DOMAIN uvs :
                (uvs[k].owner = i /\ uvs[k].state = "serving") => uvs'[k].should_exit]_vars

\* C19: force_exit is set on a uvicorn server only by the step of stop() in which the
\* bounded wait for the thread expires.
C19_ForceExitOnlyAfterWait ==
    [][\A k \in DOMAIN uvs :
         (~uvs[k].force_exit /\ uvs'[k].force_exit) => StopTimeout]_vars

\* C20: a tile request answered by a listening server, for a coordinate with no row
\* at the converted coordinate of a store that has the tables, is answered not-found.
C20_MissingIsNotFound ==
    (/\ resp # None
     /\ file # None
     /\ file[1].schema
     /\ SelectTile(file[1], resp[1].tile[1], resp[1].tile[2],
                   FetchTmsY(resp[1].tile[1], resp[1].tile[3])) = None)
        => resp[1].answer = <<"not_found">>

\* C25: a PythonTileServer whose uvicorn server is listening and was not told to exit
\* has its connection open.
C25_RunningHasHandle ==
    \A k \in DOMAIN uvs :
        (uvs[k].state = "serving" /\ ~uvs[k].should_exit) => insts[uvs[k].owner].conn

LockedWrites == {"c_progress", "c_message", "c_result", "f_error", "f_message"}

\* C26: the registry lock is held only by a runner whose target has ended and that is
\* inside its final writes, which it can always finish; so whenever some job's target
\* is executing, every step of another job is enabled or waits only for such writes.
C26_LockNotHeldDuringTarget ==
    /\ \A s \in Slots : pc[s] = "op" => lock # s
    /\ lock # 0 => (pc[lock] \in LockedWrites /\ ENABLED RunnerStep(lock))
    /\ lock = 0 =>
        \A s \in Slots :
            /\ pc[s] = "constructed" => ENABLED Register(s)
            /\ pc[s] = "op" => ENABLED TargetReturns(s, "r1")
            /\ pc[s] = "op" => ENABLED ProgressCallback(s, One, "working")

C26_Witness ==
    \E s \in Slots, t \in Slots :
        /\ s < t
        /\ pc[s] = "op" /\ obj[s].status = "running"
        /\ pc[t] = "done" /\ obj[t].status = "completed" /\ get_job(job_id[t]) = t
        /\ lock = 0

\* C27: the tiles_written a successful build returns is the number of rows of the
\* tiles relation, which is the number of inserts made, and every row has its zoom
\* within min_zoom..max_zoom and its column and row within [0, 2^zoom).
C27_TilesWrittenIsRowCount ==
    build.pc = "done" =>
        /\ build.result[1].tiles_written = Cardinality(file[1].tiles)
        /\ build.result[1].tiles_written = Cardinality(Coordinates(file[1].tiles))
        /\ build.result[1].tiles_written = Cardinality(build.inserted)
        /\ \A r \in file[1].tiles :
            /\ r[1] \in build.min_zoom..build.max_zoom
            /\ r[2] \in Rows(r[1])
            /\ r[3] \in Rows(r[1])

C27_Witness ==
    /\ build.pc = "done"
    /\ build.result[1].tiles_written > 2
    /\ build.min_zoom > 0
    /\ \E r \in file[1].tiles : r[3] = 0

\* C28: a build that failed inside the loop over the candidates leaves a store with
\* the tables, the metadata rows of this build, and no tile row.
C28_FailedBuildKeepsNoTiles ==
    (build.pc = "failed" /\ build.error = Some("encode failed")) =>
        /\ file # None
        /\ file[1].schema
        /\ file[1].metadata =
              MetadataRows(build.bounds[1], build.valid, build.min_zoom, build.max_zoom)
        /\ file[1].tiles = {}

C28_Witness ==
    /\ build.pc = "failed" /\ build.error = Some("encode failed")
    /\ build.rolled_back > 1
    /\ file[1].tiles = {}
    /\ Len(file[1].metadata) = 8

\* what the metadata rows of the store say: the ids advertised, in order, and the zooms
AdvertisedIds ==
    LET json == {i \in DOMAIN file[1].metadata : file[1].metadata[i][1] = "json"}
        d == file[1].metadata[CHOOSE i \in json : TRUE][2]
    IN  IF json = {} \/ ~d.parses \/ d.vector_layers = None THEN <<>>
        ELSE LET all == d.vector_layers[1]
                 named == SelectSeq(all, LAMBDA l : l.id # None /\ l.id # Some(<<>>))
             IN  [i \in 1..Len(named) |-> named[i].id[1]]
ZoomRowOf(key) ==
    {file[1].metadata[i][2] : i \in {j \in DOMAIN file[1].metadata : file[1].metadata[j][1] = key}}
LineLike(id) ==
    \E i \in 1..Len(id) : \E w \in {<<"l", "i", "n", "e">>, <<"r", "o", "a", "d">>} :
        /\ i + 3 <= Len(id)
        /\ \A j \in 1..4 :
             \/ id[i + j - 1] = w[j]
             \/ \E u \in DOMAIN UpperCase : UpperCase[u] = id[i + j - 1] /\ LowerCase[u] = w[j]

\* C21: the style document answered has one style layer per layer id advertised by the
\* json row, in the same order; the layer is of type line when the id contains "line"
\* or "road" in any letter case and of type fill otherwise; its colour is the palette
\* entry at (position mod palette size); and the source's minzoom and maxzoom are the
\* numbers written in the minzoom and maxzoom rows.
C21_StyleFollowsMetadata ==
    (resp # None /\ "style" \in DOMAIN resp[1]) =>
        LET style == resp[1].style
            ids == AdvertisedIds
        IN  /\ Len(style.layers) = Len(ids)
            /\ \A i \in 1..Len(ids) :
                /\ style.layers[i].id = ids[i]
                /\ style.layers[i].source_layer = ids[i]
                /\ style.layers[i].type = IF LineLike(ids[i]) THEN "line" ELSE "fill"
                /\ style.layers[i].paint.color = palette[((i - 1) % 8) + 1]
            /\ \A z \in Zooms \cup {10 + MaxZoom} :
                /\ ZoomRowOf("minzoom") = {StrOfInt(z)} => style.source.minzoom = z
                /\ ZoomRowOf("maxzoom") = {StrOfInt(z)} => style.source.maxzoom = z

C21_Witness ==
    /\ resp # None /\ "style" \in DOMAIN resp[1]
    /\ Len(resp[1].style.layers) = 9
    /\ resp[1].style.layers[9].paint.color = "#FF6B6B"
    /\ \E i \in 1..9 : resp[1].style.layers[i].type = "line"
                        /\ resp[1].style.layers[i].id = <<"R", "a", "i", "l", "_", "L", "I", "N", "E">>
    /\ \E i \in 1..9 : resp[1].style.layers[i].type = "fill"
    /\ resp[1].style.source.minzoom = 1
    /\ resp[1].style.source.maxzoom = 10 + MaxZoom

\* a convert job that was created and has not ended
BuildRunning(s) == pc[s] \in {"constructed", "registered", "op"}
\* a PythonTileServer has its connection to the store open
StoreHeld == \E i \in DOMAIN insts : insts[i].conn

\* C22: while a convert job is running no tile server holds the store open.
C22_NoServerDuringBuild == \A s \in Slots : BuildRunning(s) => ~StoreHeld

\* the latest convert job that ended has failed
LastBuildFailed ==
    \E s \in DOMAIN obj :
        /\ pc[s] = "done" /\ obj[s].status = "failed"
        /\ \A t \in DOMAIN obj : t > s => ~(pc[t] = "done" /\ obj[t].status = "completed")

\* C23: after a convert job has failed and no later one has completed, no start()
\* constructs a tile server on the store.
C23_NoStartAfterFailedBuild == [][LastBuildFailed => Len(insts') = Len(insts)]_vars

\* C24: two convert jobs never execute convert_to_mbtiles at the same time.
C24_OneBuildAtATime == \A s \in Slots, t \in Slots : (pc[s] = "op" /\ pc[t] = "op") => s = t

\* the positions of convert_to_mbtiles from the build step on
BuildStep == {"callback", "unlink", "connect", "tiles", "locked", "written", "return"}

\* C29: a convert job created with processed metadata naming existing inputs does not
\* end before the build step: when it has failed, it failed inside that step; and when
\* it has completed, its progress is 1.0 and its result names the store path.
C29_ConvertReachesBuild ==
    \A s \in DOMAIN obj :
        (config.processed = "inputs" /\ pc[s] = "done") =>
            /\ obj[s].status = "failed" => conv[s].pc \in BuildStep
            /\ obj[s].status = "completed" =>
                  (obj[s].progress = One /\ obj[s].result = Some(StoreMeta))

Listening == {k \in DOMAIN uvs : uvs[k].state = "serving"}

\* C30: at most one PythonTileServer has a listening server, and once no call of
\* start() or stop() is in progress every listening server belongs to the instance
\* the manager's _python_server names.
C30_OneServerReferenced ==
    /\ Cardinality({uvs[k].owner : k \in Listening}) <= 1
    /\ (\A c \in Callers : callers[c].pc = "idle") =>
          \A k \in Listening : uvs[k].owner = mgr.python_server

====
